---- MODULE Spec2Model ----
(***************************************************************************)
(* Catalogue-item reference service: quantity canonicalisation, candidate  *)
(* resolution, direct create / create-batch, and the transactional         *)
(* find-or-create batch coordinator over the `item` table.                 *)
(*                                                                         *)
(* Text is modelled as a sequence of one-character strings so that trim,   *)
(* lower-casing, whitespace stripping and the quantity regex are computed  *)
(* character by character.  JavaScript values are tagged records.          *)
(* Decimal magnitudes are exact fixed-point integers in thousandths.       *)
(***************************************************************************)
EXTENDS Integers, Sequences, FiniteSets, TLC

\* ------------------------------------------------------------------ bounds
\* size of the id space the random id generator draws from
NumIds == 2
\* longest batch of a find-or-create call (and of a create-batch request)
MaxRows == 2
\* longest batch of a find-or-create call when calls run concurrently
MaxRowsRace == 1
\* number of direct create / create-batch requests in one behaviour
MaxCreates == 2

\* most fraction digits of a decimal magnitude the fixed-point values keep
FracDigits == 3

\* --------------------------------------------------------- JavaScript values
Null == [t |-> "null"]
Str(s) == [t |-> "str", s |-> s]
Obj(v, u) == [t |-> "obj", value |-> v, unit |-> u]
Bool(b) == [t |-> "bool", b |-> b]

IsNull(v) == v.t = "null"
IsStr(v) == v.t = "str"

\* JavaScript truthiness: null, "" and false are falsy; objects are truthy
Truthy(v) ==
  CASE v.t = "null" -> FALSE
    [] v.t = "str" -> v.s # << >>
    [] v.t = "bool" -> v.b
    [] OTHER -> TRUE

\* ------------------------------------------------------------ text helpers
UpperLetters ==
  <<"A","B","C","D","E","F","G","H","I","J","K","L","M",
    "N","O","P","Q","R","S","T","U","V","W","X","Y","Z">>
LowerLetters ==
  <<"a","b","c","d","e","f","g","h","i","j","k","l","m",
    "n","o","p","q","r","s","t","u","v","w","x","y","z">>
Digits == <<"0","1","2","3","4","5","6","7","8","9">>

IsSpace(c) == c \in {" ", "\t", "\n", "\r"}
IsDigit(c) == \E i \in 1..10 : Digits[i] = c
IsLowerAlpha(c) == \E i \in 1..26 : LowerLetters[i] = c
DigitVal(c) == (CHOOSE i \in 1..10 : Digits[i] = c) - 1

toLowerCaseChar(c) ==
  IF \E i \in 1..26 : UpperLetters[i] = c
    THEN LowerLetters[CHOOSE i \in 1..26 : UpperLetters[i] = c]
    ELSE c

\* variant: casing kept as written
toLowerCaseAsWritten(s) == s

\* String.prototype.toLowerCase / SQL LOWER()
toLowerCase(s) == [i \in 1..Len(s) |-> toLowerCaseChar(s[i])]

\* variant: surrounding white space kept
trimNothing(s) == s

\* String.prototype.trim
trim(s) ==
  LET keep == {i \in 1..Len(s) : ~IsSpace(s[i])}
  IN IF keep = {} THEN << >>
     ELSE SubSeq(s, CHOOSE i \in keep : \A j \in keep : i <= j,
                    CHOOSE i \in keep : \A j \in keep : i >= j)

\* .replace(/\s+/g, '')
stripSpaces(s) == SelectSeq(s, LAMBDA c : ~IsSpace(c))

\* length of the longest prefix of s starting at position from made of digits
DigitRun(s, from) ==
  CHOOSE n \in 0..(Len(s) - from + 1) :
    /\ \A i \in from..(from + n - 1) : IsDigit(s[i])
    /\ (from + n > Len(s) \/ ~IsDigit(s[from + n]))

\* the number written by the first k digits of ds
RECURSIVE DigitsUpTo(_, _)
DigitsUpTo(ds, k) ==
  IF k = 0 THEN 0 ELSE 10 * DigitsUpTo(ds, k - 1) + DigitVal(ds[k])

DigitsToNat(ds) == DigitsUpTo(ds, Len(ds))

RECURSIVE Pow10(_)
Pow10(k) == IF k = 0 THEN 1 ELSE 10 * Pow10(k - 1)

\* fixed-point scale of magnitudes: 10^FracDigits units per 1
Scale == Pow10(FracDigits)

\* parseFloat of "<int>" or "<int>.<frac>" (frac of at most FracDigits digits),
\* as an exact fixed-point number in thousandths
parseFloat(intDigits, fracDigits) ==
  DigitsToNat(intDigits) * Scale
    + DigitsToNat(fracDigits) * Pow10(FracDigits - Len(fracDigits))


\* --------------------------------------------------- quantity canonicalisation
\* a canonical quantity is its unit, its value as an exact fixed-point number
\* and the distance, in units in the last place, of the double the code
\* holds from that number
NoQty == [unit |-> << >>, value |-> -1, ulps |-> 0]
U_ml == <<"m","l">>
U_g == <<"g">>
U_pcs == <<"p","c","s">>
U_pack == <<"p","a","c","k">>
BaseUnits == {U_ml, U_g, U_pcs, U_pack}

\* the one element of a singleton set: values named once and used many times
\* are bound through it
Only(S) == CHOOSE x \in S : TRUE

\* variant: any unit is kept
canonUnitAny(v0, m2) == [unit |-> m2, value |-> v0, ulps |-> 0]

\* variant: l and kg are kept as units of their own
canonUnitKeepLitre(v0, m2) ==
  IF m2 \in BaseUnits \cup {<<"l">>, <<"k","g">>}
    THEN [unit |-> m2, value |-> v0, ulps |-> 0]
    ELSE NoQty

\* v *= 1000 in double arithmetic: the product is the double nearest to the
\* exact product for every magnitude of the quantity texts below except 2.01,
\* where 2.01 * 1000 is 2009.9999999999998, one unit in the last place below
\* 2010
roundingOfTimes1000(v0) == IF v0 * 100 = 201 * Scale THEN -1 ELSE 0

\* unit aliases and the base-unit check, on the number v0 and unit text m2 of
\* the match
canonUnit(v0, m2) ==
  LET litre == m2 \in {<<"l">>, <<"l","t">>, <<"l","i","t","e","r">>, <<"l","i","t","r","e">>}
      kilo == m2 = <<"k","g">>
      piece == m2 \in {<<"p","c">>, <<"p","i","e","c","e">>, <<"p","i","e","c","e","s">>}
      packs == m2 = <<"p","a","c","k","s">>
      v == IF litre \/ kilo THEN v0 * 1000 ELSE v0
      u == CASE litre -> U_ml
             [] kilo -> U_g
             [] piece -> U_pcs
             [] packs -> U_pack
             [] OTHER -> m2
  IN IF u \notin BaseUnits THEN NoQty
     ELSE [unit |-> u, value |-> v,
           ulps |-> IF litre \/ kilo THEN roundingOfTimes1000(v0) ELSE 0]

\* t.match(/^(\d+(?:\.\d+)?)([a-z]+)$/) with ni integer digits and, after a
\* dot, nf fraction digits (nf = 0: no dot taken)
canonMatch(t, ni, nf) ==
  LET numLen == IF nf > 0 THEN ni + 1 + nf ELSE ni
      matches == /\ ni >= 1
                 /\ numLen < Len(t)
                 /\ \A i \in (numLen + 1)..Len(t) : IsLowerAlpha(t[i])
  IN IF ~matches THEN NoQty
     ELSE Only({canonUnit(v0, SubSeq(t, numLen + 1, Len(t))) :
                  v0 \in {parseFloat(SubSeq(t, 1, ni), SubSeq(t, ni + 2, ni + 1 + nf))}})

\* the text after trim, toLowerCase and the removal of white space
canonText(t) ==
  Only({Only({canonMatch(t, ni, nf) :
                nf \in {IF ni + 1 <= Len(t) /\ t[ni + 1] = "." THEN DigitRun(t, ni + 2) ELSE 0}}) :
          ni \in {DigitRun(t, 1)}})

\* canonQty(raw): raw is the text of a quantity; NoQty stands for null
canonQty(raw) ==
  IF raw = << >> THEN NoQty
  ELSE Only({canonText(t) : t \in {stripSpaces(toLowerCase(trim(raw)))}})

\* String(x) of a JavaScript value that is a string (numbers are carried as
\* their decimal text)
String(v) == IF v.t = "str" THEN v.s ELSE <<"[","o","b","j","e","c","t","]">>

\* toCanon(q): q is a JavaScript value (null, string, {value, unit} object, ...)
toCanon(q) ==
  IF ~Truthy(q) THEN NoQty
  ELSE IF q.t = "str" THEN canonQty(q.s)
  ELSE IF q.t = "obj" /\ ~IsNull(q.value) /\ Truthy(q.unit)
    THEN canonQty(String(q.value) \o String(q.unit))
  ELSE NoQty

\* the difference taken with its sign
AbsAsIs(x) == x
Abs(x) == IF x < 0 THEN -x ELSE x
\* the first argument whatever the second
MaxAsFirst(a, b) == a
Max(a, b) == IF a >= b THEN a ELSE b

\* sameQty(userQ, dbQ) on JavaScript values; values are in 1/Scale units, so
\*   |u - d| < 0.5                      is  2 * |u - d| < Scale
\*   |u - d| <= max(1, 0.02 * maxV)     is  50 * |u - d| <= max(50 * Scale, maxV)
\* the comparison that lets only an unknown first quantity pass
sameCanonUserFirst(u, d) ==
  IF u = NoQty THEN TRUE
  ELSE IF u.unit # d.unit THEN FALSE
  ELSE IF u.unit = U_pcs \/ u.unit = U_pack
    THEN 2 * Abs(u.value - d.value) < Scale
  ELSE 50 * Abs(u.value - d.value) <= Max(50 * Scale, Max(u.value, d.value))

\* the comparison without the test on the units
sameCanonAnyUnit(u, d) ==
  IF u = NoQty \/ d = NoQty THEN TRUE
  ELSE IF u.unit = U_pcs \/ u.unit = U_pack
    THEN 2 * Abs(u.value - d.value) < Scale
  ELSE 50 * Abs(u.value - d.value) <= Max(50 * Scale, Max(u.value, d.value))

sameCanon(u, d) ==
  IF u = NoQty \/ d = NoQty THEN TRUE
  ELSE IF u.unit # d.unit THEN FALSE
  ELSE IF u.unit = U_pcs \/ u.unit = U_pack
    THEN 2 * Abs(u.value - d.value) < Scale
  ELSE 50 * Abs(u.value - d.value) <= Max(50 * Scale, Max(u.value, d.value))

sameQty(userQ, dbQ) ==
  Only({sameCanon(u, d) : u \in {toCanon(userQ)}, d \in {toCanon(dbQ)}})

\* splitFeaturesCSV(s): tokens of a comma-separated list, trimmed, lower-cased,
\* empty tokens dropped
\* the pieces of s between the positions in cuts (the commas and both ends)
piecesAt(s, cuts) == [k \in 1..(Len(cuts) - 1) |-> SubSeq(s, cuts[k] + 1, cuts[k + 1] - 1)]

\* s.split(',')
splitComma(s) ==
  Only({piecesAt(s, cuts) :
          cuts \in {<<0>> \o SelectSeq([i \in 1..Len(s) |-> i], LAMBDA i : s[i] = ",")
                         \o <<Len(s) + 1>>}})

splitFeaturesCSV(s) ==
  Only({SelectSeq([i \in 1..Len(parts) |-> toLowerCase(trim(parts[i]))], LAMBDA x : x # << >>) :
          parts \in {splitComma(s)}})


\* uniq(arr): Array.from(new Set(arr)), first occurrences in order
uniq(arr) ==
  Only({[k \in 1..Len(firsts) |-> arr[firsts[k]]] :
          firsts \in {SelectSeq([i \in 1..Len(arr) |-> i],
                                LAMBDA i : \A j \in 1..(i - 1) : arr[j] # arr[i])}})

RECURSIVE flatten(_)
flatten(ss) == IF ss = << >> THEN << >> ELSE Head(ss) \o flatten(Tail(ss))

\* every enumeration of a finite set as a sequence without repetition
Orderings(S) ==
  {f \in [1..Cardinality(S) -> S] : \A x \in S : \E i \in 1..Cardinality(S) : f[i] = x}

\* -------------------------------------------------------------- test texts
T_Cola == <<"C","o","l","a">>
T_Cola_zero == <<"C","o","l","a"," ","z","e","r","o">>
T_cola_pad == <<" ","c","o","l","a"," ">>
T_Acme == <<"A","c","m","e">>
T_ACME == <<"A","C","M","E">>
T_blank == <<" ">>
Q_500ML == <<"5","0","0","M","L">>
Q_500ml_pad == <<" ","5","0","0","m","l">>
Q_500ml == <<"5","0","0","m","l">>
Q_1000ml == <<"1","0","0","0","m","l">>
Q_half_L == <<"0",".","5","L">>
Q_6_PCS == <<"6"," ","P","C","S">>
Q_big == <<"b","i","g">>
F_diet_zero == <<"D","i","e","t",","," ","z","e","r","o">>
F_zero == <<"Z","e","r","o">>
F_diet == <<"d","i","e","t">>

\* ids the generator can produce: crypto.randomBytes(6).toString('base64url')
\* drawn from a space of NumIds ids
Id(n) == <<"i", Digits[n + 1]>>
IdSpace == {Id(n) : n \in 1..NumIds}

\* ------------------------------------------------------------------- state
VARIABLES
  catalogue,    \* committed rows of table `item`
  pc,           \* per batch worker: position in processBatch
  rows,         \* per batch worker: the batch being processed
  pos,          \* per batch worker: index of the row in progress
  tried,        \* per batch worker: per row, the ids generated for it so far
  pending,      \* per batch worker: rows inserted by the open transaction
  results,      \* per batch worker: per-row results recorded so far
  outcome,      \* per batch worker: how the call ended, and what the caller got
  cat0,         \* history, per batch worker: the catalogue when the call began
  creates,      \* number of create / create-batch requests handled
  lastCreate,   \* response of the last create / create-batch
  lastResolve,  \* query and response of the last resolve
  lastQty,      \* arguments and result of the last sameQty evaluation
  bulk,         \* POST /category/bulk: table itemInput, the pool and the request in progress
  sites         \* GET /regions/with-sites: the request in progress

vars == <<catalogue, pc, rows, pos, tried, pending, results, outcome, cat0,
          creates, lastCreate, lastResolve, lastQty, bulk, sites>>
batchVars == <<pc, rows, pos, tried, pending, results, outcome, cat0>>
itemVars == <<catalogue, batchVars, creates, lastCreate, lastResolve, lastQty>>

Workers == {1, 2}

\* --------------------------------------------------------------- storage
\* tidy = v => (v == null ? null : String(v).trim() || null)
tidy(v) ==
  IF IsNull(v) THEN Null
  ELSE IF trim(String(v)) = << >> THEN Null ELSE Str(trim(String(v)))

ItemRow(id, name, brand, quantity, feature) ==
  [id |-> id, name |-> name, brand |-> brand, quantity |-> quantity,
   feature |-> feature]

\* variant: no id counts as taken
TakenIdsNone == {}

\* ids taken in table `item`, uncommitted rows of open transactions included
\* (the primary-key index holds them)
TakenIds == {r.id : r \in catalogue} \cup {r.id : r \in UNION {pending[w] : w \in Workers}}

\* variant: a table without the unique id constraint
insertItemUnchecked(table, taken, row) ==
  [ok |-> TRUE, code |-> "", table |-> table \cup {row}]

\* variant: a row with a taken id takes the place of the stored one
insertItemReplacing(table, taken, row) ==
  [ok |-> TRUE, code |-> "", table |-> {r \in table : r.id # row.id} \cup {row}]

\* INSERT INTO item (...) VALUES (...): the primary key rejects a taken id
\* with ER_DUP_ENTRY and stores nothing; otherwise the row is added
insertItem(table, taken, row) ==
  IF row.id \in taken
    THEN [ok |-> FALSE, code |-> "ER_DUP_ENTRY", table |-> table]
    ELSE [ok |-> TRUE, code |-> "", table |-> table \cup {row}]

\* INSERT INTO item (...) VALUES ? with a list of rows: one statement, so
\* either every row is stored or, when any id is taken or repeated, none is
RECURSIVE insertItems(_, _, _)
insertItems(table, taken, rs) ==
  IF rs = << >> THEN [ok |-> TRUE, code |-> "", table |-> table]
  ELSE LET first == insertItem(table, taken, Head(rs))
       IN IF ~first.ok THEN first
          ELSE insertItems(first.table, taken \cup {Head(rs).id}, Tail(rs))

\* SELECT ... FROM item WHERE LOWER(name) = LOWER(?) AND LOWER(brand) = LOWER(?)
\* (a NULL column never compares equal)
findByExactBrandName(table, item, brand) ==
  {r \in table : /\ IsStr(r.name) /\ toLowerCase(r.name.s) = toLowerCase(item)
                 /\ IsStr(r.brand) /\ toLowerCase(r.brand.s) = toLowerCase(brand)}


\* ------------------------------------------------- direct create operations
CreateBodies ==
  { [id |-> Null, name |-> Str(T_Cola), brand |-> Str(T_Acme),
     quantity |-> Str(Q_500ml), feature |-> Str(F_diet_zero)],
    [id |-> Str(<<" ">> \o Id(1)), name |-> Str(T_cola_pad), brand |-> Str(T_ACME),
     quantity |-> Str(Q_1000ml), feature |-> Str(F_zero)],
    [id |-> Null, name |-> Str(T_Cola), brand |-> Str(T_Acme),
     quantity |-> Str(Q_big), feature |-> Null],
    [id |-> Null, name |-> Str(T_Cola), brand |-> Null,
     quantity |-> Str(Q_6_PCS), feature |-> Null],
    [id |-> Null, name |-> Null, brand |-> Str(T_Acme),
     quantity |-> Str(Q_500ml), feature |-> Null],
    [id |-> Null, name |-> Str(T_Cola), brand |-> Str(T_Acme),
     quantity |-> Str(T_blank), feature |-> Null],
    [id |-> Null, name |-> Str(T_Cola_zero), brand |-> Str(T_Acme),
     quantity |-> Str(Q_500ml), feature |-> Null] }

NoCreate == [op |-> "none", status |-> 0, error |-> "", ids |-> << >>]

\* !v || !String(v).trim()
Blank(v) == ~Truthy(v) \/ trim(String(v)) = << >>

\* the row POST /create and POST /create-batch store for one request item
CreateRow(body, gen) ==
  ItemRow(IF IsNull(tidy(body.id)) THEN gen ELSE tidy(body.id).s,
          tidy(body.name), tidy(body.brand), tidy(body.quantity), tidy(body.feature))

\* uncommitted inserts of an open transaction hold their primary-key entries:
\* a plain insert of such an id waits for that transaction to end
NotLocked(ids) == \A w \in Workers : \A r \in pending[w] : r.id \notin ids

\* POST /create
Create ==
  /\ creates < MaxCreates
  /\ \E body \in CreateBodies, gen \in IdSpace :
       /\ creates' = creates + 1
       /\ IF Blank(body.name)
            THEN /\ lastCreate' = [op |-> "create", status |-> 400, error |-> "name_required",
                                   ids |-> << >>]
                 /\ catalogue' = catalogue
          ELSE IF Blank(body.quantity)
            THEN /\ lastCreate' = [op |-> "create", status |-> 400, error |-> "quantity_required",
                                   ids |-> << >>]
                 /\ catalogue' = catalogue
          ELSE LET row == CreateRow(body, gen)
                   ins == insertItem(catalogue, TakenIds, row)
               IN /\ NotLocked({row.id})
                  /\ catalogue' = ins.table
                  /\ lastCreate' =
                       IF ins.ok
                         THEN [op |-> "create", status |-> 201, error |-> "",
                               ids |-> <<row.id>>]
                         ELSE [op |-> "create", status |-> 409, error |-> "duplicate_id",
                               ids |-> << >>]
  /\ UNCHANGED <<batchVars, lastResolve, lastQty, bulk, sites>>

\* POST /create: pool.execute throws something other than ER_DUP_ENTRY
CreateFails ==
  /\ creates < MaxCreates
  /\ \E body \in CreateBodies :
       /\ ~Blank(body.name) /\ ~Blank(body.quantity)
       /\ creates' = creates + 1
       /\ lastCreate' = [op |-> "create", status |-> 500, error |-> "server_error",
                         ids |-> << >>]
  /\ UNCHANGED <<catalogue, batchVars, lastResolve, lastQty, bulk, sites>>

\* the items of a create-batch request that pass `if (!name || !quantity) continue`
RECURSIVE validItems(_, _)
validItems(items, gens) ==
  IF items = << >> THEN << >>
  ELSE LET it == Head(items)
           rest == validItems(Tail(items), Tail(gens))
       IN IF IsNull(tidy(it.name)) \/ IsNull(tidy(it.quantity)) THEN rest
          ELSE <<CreateRow(it, Head(gens))>> \o rest

\* POST /create-batch
CreateBatch ==
  /\ creates < MaxCreates
  /\ \E n \in 0..MaxRows :
     \E items \in [1..n -> CreateBodies], gens \in [1..n -> IdSpace] :
       LET rs == validItems(items, gens)
           ins == insertItems(catalogue, TakenIds, rs)
       IN /\ creates' = creates + 1
          /\ IF items = << >>
               THEN /\ lastCreate' = [op |-> "create-batch", status |-> 400,
                                      error |-> "items_required", ids |-> << >>]
                    /\ catalogue' = catalogue
             ELSE IF rs = << >>
               THEN /\ lastCreate' = [op |-> "create-batch", status |-> 400,
                                      error |-> "no_valid_rows", ids |-> << >>]
                    /\ catalogue' = catalogue
             ELSE /\ NotLocked({rs[i].id : i \in 1..Len(rs)})
                  /\ catalogue' = IF ins.ok THEN ins.table ELSE catalogue
                  /\ lastCreate' =
                       IF ins.ok
                         THEN [op |-> "create-batch", status |-> 201, error |-> "",
                               ids |-> [i \in 1..Len(rs) |-> rs[i].id]]
                         ELSE [op |-> "create-batch", status |-> 500, error |-> "server_error",
                               ids |-> << >>]
  /\ UNCHANGED <<batchVars, lastResolve, lastQty, bulk, sites>>


\* ------------------------------------------------------------------ resolve
Queries ==
  [brand : {Str(T_ACME)}, item : {Str(T_cola_pad)},
   quantity : {Null, Str(<< >>), Str(Q_500ML), Str(Q_half_L), Str(Q_big),
               Obj(Str(<<"1">>), Str(<<"L">>))},
   selectedFeatures : {<< >>}, strictQty : BOOLEAN]
  \cup
  [brand : {Str(T_ACME)}, item : {Str(T_cola_pad)},
   quantity : {Null, Str(Q_500ML)},
   selectedFeatures : {<<F_zero>>, <<F_diet, <<" ">> \o F_zero>>}, strictQty : {FALSE}]
  \cup
  [brand : {Str(T_ACME), Str(T_blank)}, item : {Null, Str(T_cola_pad)},
   quantity : {Str(Q_500ML)}, selectedFeatures : {<< >>}, strictQty : {TRUE}]

NoResolve ==
  [handler |-> "none", status |-> 0, error |-> "", exactId |-> Null,
   suggestedFeatures |-> << >>, candidates |-> << >>]

\* String(v ?? '')
StrOrEmpty(v) == IF IsNull(v) THEN << >> ELSE String(v)

\* rows.map(r => ({ id: String(r.id ?? ''), name: String(r.name ?? ''), ... }))
Candidate(r) ==
  [id |-> r.id, name |-> StrOrEmpty(r.name), brand |-> StrOrEmpty(r.brand),
   quantity |-> StrOrEmpty(r.quantity), feature |-> StrOrEmpty(r.feature)]

\* variant: the quantity filter keeps every candidate
filterQtyKeepAll(cands, q) == cands

\* candidates.filter(c => sameQty(q, c.quantity))
filterQty(cands, q) == SelectSeq(cands, LAMBDA c : sameQty(q, Str(c.quantity)))

\* variant: the first candidate taken as exact whenever there is one
exactIdOfFirst(cands) == IF Len(cands) >= 1 THEN Str(cands[1].id) ELSE Null

\* exactId: (candidates.length === 1 ? candidates[0].id : null)
exactIdOf(cands) == IF Len(cands) = 1 THEN Str(cands[1].id) ELSE Null

ResolveError(h, status, code) ==
  [handler |-> h, status |-> status, error |-> code, exactId |-> Null,
   suggestedFeatures |-> << >>, candidates |-> << >>]

ResolveOk(h, cands, feats) ==
  [handler |-> h, status |-> 200, error |-> "", exactId |-> exactIdOf(cands),
   suggestedFeatures |-> feats, candidates |-> cands]

\* app.post('/api/items/resolve') as first registered in index.js: brand, item
\* and quantity only
ResolveBasic ==
  /\ \E q \in Queries :
       LET brand == trim(StrOrEmpty(q.brand))
           item == trim(StrOrEmpty(q.item))
       IN IF brand = << >> \/ item = << >>
            THEN lastResolve' = [query |-> q] @@ ResolveError("basic", 400, "brand_and_item_required")
          ELSE \E order \in Orderings(findByExactBrandName(catalogue, item, brand)) :
            LET all == [i \in 1..Len(order) |-> Candidate(order[i])]
                cands == IF Truthy(q.quantity) THEN filterQty(all, q.quantity) ELSE all
            IN lastResolve' = [query |-> q] @@ ResolveOk("basic", cands, << >>)
  /\ UNCHANGED <<catalogue, batchVars, creates, lastCreate, lastQty, bulk, sites>>

\* userQty = (qty && typeof qty === 'object') ? qty : (typeof qty === 'string' ? qty : null)
userQtyOf(qty) == IF qty.t \in {"obj", "str"} THEN qty ELSE Null

\* router.post('/resolve') of routes/item.js: adds the strictQty flag
ResolveStrict ==
  /\ \E q \in Queries :
       LET brand == trim(StrOrEmpty(q.brand))
           item == trim(StrOrEmpty(q.item))
           userQty == userQtyOf(q.quantity)
       IN IF brand = << >> \/ item = << >>
            THEN lastResolve' = [query |-> q] @@ ResolveError("strict", 400, "brand_and_item_required")
          ELSE IF q.strictQty /\ ~Truthy(userQty)
            THEN lastResolve' = [query |-> q] @@ ResolveError("strict", 400, "quantity_required_in_strict_mode")
          ELSE \E order \in Orderings(findByExactBrandName(catalogue, item, brand)) :
            LET all == [i \in 1..Len(order) |-> Candidate(order[i])]
                cands == IF Truthy(userQty) THEN filterQty(all, userQty)
                         ELSE IF q.strictQty THEN << >> ELSE all
            IN lastResolve' = [query |-> q] @@ ResolveOk("strict", cands, << >>)
  /\ UNCHANGED <<catalogue, batchVars, creates, lastCreate, lastQty, bulk, sites>>

\* req.body.selectedFeatures.map(s => String(s).toLowerCase().trim()).filter(Boolean)
selectedOf(sel) ==
  SelectSeq([i \in 1..Len(sel) |-> trim(toLowerCase(sel[i]))], LAMBDA x : x # << >>)

\* selectedFeatures.every(sf => splitFeaturesCSV(c.feature).includes(sf))
hasFeatures(c, selected) ==
  LET f == splitFeaturesCSV(c.feature)
  IN \A k \in 1..Len(selected) : \E j \in 1..Len(f) : f[j] = selected[k]

\* app.post('/api/items/resolve') as registered second in index.js: feature
\* union and selectedFeatures narrowing
ResolveFeatures ==
  /\ \E q \in Queries :
       LET brand == trim(StrOrEmpty(q.brand))
           item == trim(StrOrEmpty(q.item))
           userQty == userQtyOf(q.quantity)
           selected == selectedOf(q.selectedFeatures)
       IN IF brand = << >> \/ item = << >>
            THEN lastResolve' = [query |-> q] @@ ResolveError("features", 400, "brand_and_item_required")
          ELSE \E order \in Orderings(findByExactBrandName(catalogue, item, brand)) :
            LET all == [i \in 1..Len(order) |-> Candidate(order[i])]
                byQty == IF Truthy(userQty) THEN filterQty(all, userQty) ELSE all
                unionFeatures ==
                  uniq(flatten([i \in 1..Len(byQty) |-> splitFeaturesCSV(byQty[i].feature)]))
                cands == IF selected # << >>
                           THEN SelectSeq(byQty, LAMBDA c : hasFeatures(c, selected))
                           ELSE byQty
            IN lastResolve' = [query |-> q] @@ ResolveOk("features", cands, unionFeatures)
  /\ UNCHANGED <<catalogue, batchVars, creates, lastCreate, lastQty, bulk, sites>>

\* variant: the failing query takes the records with it
ResolveFailsLosingRecords ==
  /\ \E q \in Queries, h \in {"basic", "strict", "features"} :
       /\ trim(StrOrEmpty(q.brand)) # << >> /\ trim(StrOrEmpty(q.item)) # << >>
       /\ lastResolve' = [query |-> q] @@ ResolveError(h, 500, "server_error")
  /\ catalogue' = {}
  /\ UNCHANGED <<batchVars, creates, lastCreate, lastQty, bulk, sites>>

\* any resolve handler: the catalogue query throws, the catch answers 500
ResolveFails ==
  /\ \E q \in Queries, h \in {"basic", "strict", "features"} :
       /\ trim(StrOrEmpty(q.brand)) # << >> /\ trim(StrOrEmpty(q.item)) # << >>
       /\ h = "strict" => ~(q.strictQty /\ ~Truthy(userQtyOf(q.quantity)))
       /\ lastResolve' = [query |-> q] @@ ResolveError(h, 500, "server_error")
  /\ UNCHANGED <<catalogue, batchVars, creates, lastCreate, lastQty, bulk, sites>>


\* variant: one attempt more
MaxAttemptsOneMore == 3 + 1

\* ------------------------------------- find-or-create batch coordinator
\* retry budget of INSERT_ATTEMPT per row
MaxAttempts == 3

BatchRows ==
  { [name |-> Str(T_Cola), brand |-> Str(T_Acme), quantity |-> Str(Q_500ML), feature |-> Null],
    [name |-> Str(T_cola_pad), brand |-> Str(T_ACME), quantity |-> Str(Q_500ml_pad),
     feature |-> Str(<< >>)],
    [name |-> Str(T_Cola), brand |-> Str(T_Acme), quantity |-> Str(Q_half_L), feature |-> Null],
    [name |-> Str(T_blank), brand |-> Str(T_Acme), quantity |-> Str(Q_500ML), feature |-> Null] }

Batches(maxLen) == UNION {[1..n -> BatchRows] : n \in 1..maxLen}

\* batches of concurrent calls: rows of one identity key and the invalid row
RaceRows == {r \in BatchRows : r.quantity # Str(Q_half_L)}
RaceBatches(maxLen) == UNION {[1..n -> RaceRows] : n \in 1..maxLen}

\* one field of the identity key: absent/null is the empty text, otherwise
\* trimmed and lower-cased
keyField(v) == IF IsNull(v) THEN << >> ELSE toLowerCase(trim(String(v)))

\* keyOf(name, brand, quantity?, feature?)
keyOf(name, brand, quantity, feature) ==
  <<keyField(name), keyField(brand), keyField(quantity), keyField(feature)>>

keyOfRow(r) == keyOf(r.name, r.brand, r.quantity, r.feature)

\* variant: a lookup that never matches
findByNormalizedTupleNever(table, row) == {}

\* findByNormalizedTuple(name, brand, quantity, feature): the stored rows whose
\* identity key equals the key of the given fields
findByNormalizedTuple(table, row) == {r \in table : keyOfRow(r) = keyOfRow(row)}

\* trimmed text of a row field, null kept as null
trimmed(v) == IF IsNull(v) THEN Null ELSE Str(trim(String(v)))

RowFailed(code) == [ok |-> FALSE, existed |-> FALSE, id |-> << >>, error |-> code]
RowDone(existed, id) == [ok |-> TRUE, existed |-> existed, id |-> id, error |-> ""]

Active(w) == pc[w] \notin {"idle", "done"}

NoOutcome == [kind |-> "none", error |-> "", results |-> << >>]

\* conn.commit(): the rows written by the transaction become part of the table
commit(table, written) == table \cup written

\* variant: a rollback that keeps what the transaction wrote
rollbackKeeping(table, written) == table \cup written

\* conn.rollback(): the rows written by the transaction are discarded
rollback(table, written) == table

\* the transaction commits and the caller gets { results }
Committed(w) ==
  /\ catalogue' = commit(catalogue, pending[w])
  /\ pending' = [pending EXCEPT ![w] = {}]
  /\ outcome' = [outcome EXCEPT ![w] = [kind |-> "results", error |-> "", results |-> results[w]]]
  /\ pc' = [pc EXCEPT ![w] = "done"]

\* the transaction is rolled back and the caller gets one batch-level error
Aborted(w) ==
  /\ catalogue' = rollback(catalogue, pending[w])
  /\ pending' = [pending EXCEPT ![w] = {}]
  /\ outcome' = [outcome EXCEPT ![w] = [kind |-> "error", error |-> "server_error", results |-> << >>]]
  /\ pc' = [pc EXCEPT ![w] = "done"]

\* VALIDATE: trim name and brand; a row with either empty is invalid
invalidRow(row) == trim(StrOrEmpty(row.name)) = << >> \/ trim(StrOrEmpty(row.brand)) = << >>

\* variant: invalid rows passed over without a result
RECURSIVE validateFromSilently(_, _, _)
validateFromSilently(batch, p, res) ==
  IF p > Len(batch) THEN [pc |-> "commit", pos |-> p, results |-> res]
  ELSE IF invalidRow(batch[p]) THEN validateFromSilently(batch, p + 1, res)
  ELSE [pc |-> "lookup", pos |-> p, results |-> res]

\* VALIDATE from row p on: every invalid row met gets its error result and is
\* passed over (no storage operation, so no suspension) until a valid row or
\* the end of the batch is reached
RECURSIVE validateFrom(_, _, _)
validateFrom(batch, p, res) ==
  IF p > Len(batch) THEN [pc |-> "commit", pos |-> p, results |-> res]
  ELSE IF invalidRow(batch[p])
    THEN validateFrom(batch, p + 1, Append(res, RowFailed("name_and_brand_required")))
  ELSE [pc |-> "lookup", pos |-> p, results |-> res]

\* the row in progress is finished with result r: go on to the next rows
NextRow(w, r) ==
  LET v == validateFrom(rows[w], pos[w] + 1, Append(results[w], r))
  IN /\ pc' = [pc EXCEPT ![w] = v.pc]
     /\ pos' = [pos EXCEPT ![w] = v.pos]
     /\ results' = [results EXCEPT ![w] = v.results]

\* processBatch(rows) is called: BEGIN, then VALIDATE up to the first valid row
Begin(w, batches) ==
  /\ pc[w] = "idle"
  /\ \E batch \in batches :
       LET v == validateFrom(batch, 1, << >>)
       IN /\ rows' = [rows EXCEPT ![w] = batch]
          /\ tried' = [tried EXCEPT ![w] = [i \in 1..Len(batch) |-> << >>]]
          /\ pc' = [pc EXCEPT ![w] = v.pc]
          /\ pos' = [pos EXCEPT ![w] = v.pos]
          /\ results' = [results EXCEPT ![w] = v.results]
  /\ cat0' = [cat0 EXCEPT ![w] = catalogue]
  /\ UNCHANGED <<catalogue, pending, outcome, creates, lastCreate, lastResolve, lastQty, bulk, sites>>

\* variant: a lookup that sees committed rows only
LookupCommittedOnly(w) ==
  /\ pc[w] = "lookup"
  /\ LET found == findByNormalizedTuple(catalogue, rows[w][pos[w]])
     IN IF found # {}
          THEN \E m \in found : NextRow(w, RowDone(TRUE, m.id))
          ELSE /\ pc' = [pc EXCEPT ![w] = "insert"]
               /\ UNCHANGED <<results, pos>>
  /\ UNCHANGED <<catalogue, rows, tried, pending, outcome, cat0, creates, lastCreate, lastResolve, lastQty, bulk, sites>>

\* LOOKUP of the row in progress, inside the transaction: committed rows and
\* the rows this transaction has written are visible
Lookup(w) ==
  /\ pc[w] = "lookup"
  /\ LET found == findByNormalizedTuple(catalogue \cup pending[w], rows[w][pos[w]])
     IN IF found # {}
          THEN \E m \in found : NextRow(w, RowDone(TRUE, m.id))
          ELSE /\ pc' = [pc EXCEPT ![w] = "insert"]
               /\ UNCHANGED <<results, pos>>
  /\ UNCHANGED <<catalogue, rows, tried, pending, outcome, cat0, creates, lastCreate, lastResolve, lastQty, bulk, sites>>

\* the row INSERT_ATTEMPT stores for a batch row under a generated id
BatchRow(id, row) ==
  ItemRow(id, trimmed(row.name), trimmed(row.brand), trimmed(row.quantity),
          trimmed(row.feature))

\* ids visible to the transaction of worker w
VisibleIds(w) == {r.id : r \in catalogue \cup pending[w]}

\* variant: ids written by open transactions are not held
heldByOtherNever(w, id) == FALSE

\* the primary-key entry of id is held by a row another open transaction has
\* inserted and not yet committed or rolled back
heldByOther(w, id) == \E o \in Workers \ {w} : \E r \in pending[o] : r.id = id

\* INSERT_ATTEMPT with a freshly generated id; a duplicate-id violation
\* regenerates until the budget is spent, then aborts the batch.  An id held
\* by another open transaction makes the insert wait for that transaction.
InsertAttempt(w) ==
  /\ pc[w] = "insert"
  /\ \E id \in IdSpace :
       LET ins == insertItem(pending[w], VisibleIds(w), BatchRow(id, rows[w][pos[w]]))
           spent == Len(tried[w][pos[w]]) + 1
       IN /\ ~heldByOther(w, id)
          /\ tried' = [tried EXCEPT ![w][pos[w]] = Append(@, id)]
          /\ IF ins.ok
               THEN /\ pending' = [pending EXCEPT ![w] = ins.table]
                    /\ NextRow(w, RowDone(FALSE, id))
                    /\ UNCHANGED <<catalogue, outcome>>
             ELSE IF spent < MaxAttempts
               THEN UNCHANGED <<catalogue, pos, pending, results, outcome, pc>>
             ELSE Aborted(w) /\ UNCHANGED <<pos, results>>
  /\ UNCHANGED <<rows, cat0, creates, lastCreate, lastResolve, lastQty, bulk, sites>>

\* every row has been processed: COMMIT and return the row results
Commit(w) ==
  /\ pc[w] = "commit"
  /\ Committed(w)
  /\ UNCHANGED <<rows, pos, tried, results, cat0, creates, lastCreate, lastResolve, lastQty, bulk, sites>>

\* a lookup, an insert or the commit throws a storage error: ROLLBACK and a
\* single batch-level error
StorageFails(w) ==
  /\ pc[w] \in {"lookup", "insert", "commit"}
  /\ Aborted(w)
  /\ UNCHANGED <<rows, pos, tried, results, cat0, creates, lastCreate, lastResolve, lastQty, bulk, sites>>

\* the response has been delivered; the worker is free for the next call
Return(w) ==
  /\ pc[w] = "done"
  /\ pc' = [pc EXCEPT ![w] = "idle"]
  /\ rows' = [rows EXCEPT ![w] = << >>]
  /\ pos' = [pos EXCEPT ![w] = 0]
  /\ tried' = [tried EXCEPT ![w] = << >>]
  /\ results' = [results EXCEPT ![w] = << >>]
  /\ outcome' = [outcome EXCEPT ![w] = NoOutcome]
  /\ cat0' = [cat0 EXCEPT ![w] = {}]
  /\ UNCHANGED <<catalogue, pending, creates, lastCreate, lastResolve, lastQty, bulk, sites>>

\* ------------------------------------------------------------------- start
\* no sameQty evaluation yet
NoSameQty ==
  [a |-> Null, b |-> Null, done |-> FALSE, same |-> FALSE, u |-> NoQty, d |-> NoQty]

\* ---- POST /category/bulk: table itemInput and the idle handler
C_old == <<"o","l","d">>
C_food == <<"f","o","o","d">>
C_Food_pad == <<" ","F","o","o","d"," ">>
C_tea == <<"t","e","a">>
K_1 == <<"1">>
K_9 == <<"9">>

InputRow(id, itemID, category) ==
  [id |-> id, userID |-> K_1, itemID |-> itemID, priceID |-> K_1, chainShopID |-> K_1,
   createdAt |-> K_1, category |-> category]

\* rows of table itemInput: two rows with the same five key columns and one
\* other row
StoredInputs == {InputRow(1, K_1, C_old), InputRow(2, K_1, C_old), InputRow(3, <<"2">>, C_old)}

NoTally == [ok |-> 0, miss |-> 0, fail |-> 0]
NoBulkResponse == [status |-> 0, error |-> "", ok |-> 0, miss |-> 0, fail |-> 0, count |-> 0]

\* no request in progress
BulkIdle(table, leased) ==
  [pc |-> "idle", updates |-> << >>, i |-> 0, tally |-> NoTally, table |-> table,
   work |-> table, before |-> table, threw |-> "", leased |-> leased,
   resp |-> NoBulkResponse]

NoBulk == BulkIdle(StoredInputs, 0)

\* ---- GET /regions/with-sites: no request in progress
NoSites ==
  [pc |-> "idle", urls |-> << >>, limit |-> 0, next |-> 0, out |-> << >>,
   at |-> << >>, taken |-> << >>, aborted |-> FALSE,
   resp |-> [status |-> 0, partial |-> FALSE, rows |-> << >>]]

InitRest ==
  /\ bulk = NoBulk
  /\ sites = NoSites
  /\ pc = [w \in Workers |-> "idle"]
  /\ rows = [w \in Workers |-> << >>]
  /\ pos = [w \in Workers |-> 0]
  /\ tried = [w \in Workers |-> << >>]
  /\ pending = [w \in Workers |-> {}]
  /\ results = [w \in Workers |-> << >>]
  /\ outcome = [w \in Workers |-> NoOutcome]
  /\ cat0 = [w \in Workers |-> {}]
  /\ creates = 0
  /\ lastCreate = NoCreate
  /\ lastResolve = [query |-> Null] @@ NoResolve

Init == catalogue = {} /\ InitRest /\ lastQty = NoSameQty

\* batch calls of concurrent requests, interleaved at every storage operation
Next ==
  \/ \E w \in Workers : Begin(w, RaceBatches(MaxRowsRace))
  \/ \E w \in Workers : Lookup(w)
  \/ \E w \in Workers : InsertAttempt(w)
  \/ \E w \in Workers : Commit(w)
  \/ \E w \in Workers : StorageFails(w)
  \/ \E w \in Workers : Return(w)

Spec == Init /\ [][Next]_vars

\* batch calls that do not overlap: a call begins only when no other call
\* is open or waiting to be returned
BeginAlone(w) == Begin(w, Batches(MaxRows)) /\ \A o \in Workers \ {w} : pc[o] = "idle"

NextSeq ==
  \/ \E w \in Workers : BeginAlone(w)
  \/ \E w \in Workers : Lookup(w)
  \/ \E w \in Workers : InsertAttempt(w)
  \/ \E w \in Workers : Commit(w)
  \/ \E w \in Workers : StorageFails(w)
  \/ \E w \in Workers : Return(w)

SpecSeq == Init /\ [][NextSeq]_vars

\* direct creates only
NextCreate ==
  \/ Create
  \/ CreateFails
  \/ CreateBatch

SpecCreate == Init /\ [][NextCreate]_vars

\* ------------------------------------- batch calls and direct creates together
\* the batch every call of this scenario submits
MixedBatches ==
  {<<[name |-> Str(T_Cola), brand |-> Str(T_Acme), quantity |-> Str(Q_500ML),
      feature |-> Null]>>}

\* concurrent batch calls interleaved with POST /create requests
NextMixed ==
  \/ \E w \in Workers : Begin(w, MixedBatches)
  \/ \E w \in Workers : Lookup(w)
  \/ \E w \in Workers : InsertAttempt(w)
  \/ \E w \in Workers : Commit(w)
  \/ \E w \in Workers : StorageFails(w)
  \/ \E w \in Workers : Return(w)
  \/ Create
  \/ CreateFails

SpecMixed == Init /\ [][NextMixed]_vars

\* ---------------------------------------------- resolve over a given catalogue
\* ids of the records the resolve scenarios start from
SeedIds == {Id(0), Id(1)}

\* rows POST /create can have stored
SeedRows ==
  {CreateRow(b, g) : b \in {c \in CreateBodies : ~Blank(c.name) /\ ~Blank(c.quantity)},
                     g \in SeedIds}

SeedCatalogues ==
  {c \in SUBSET SeedRows :
     \A r1, r2 \in c : r1.id = r2.id => r1 = r2}

InitResolve == catalogue \in SeedCatalogues /\ InitRest /\ lastQty = NoSameQty

NextResolve ==
  \/ ResolveBasic
  \/ ResolveStrict
  \/ ResolveFeatures
  \/ ResolveFails

SpecResolve == InitResolve /\ [][NextResolve]_vars

\* ------------------------------------------------ sameQty on given arguments
Q_5oz == <<"5","o","z">>
Q_500g == <<"5","0","0","g">>
Q_half_kg == <<"0",".","5","k","g">>
Q_1l == <<"1","l">>
Q_1lt == <<"1","l","t">>
Q_1liter == <<"1","l","i","t","e","r">>
Q_1LITRE == <<"1","L","I","T","R","E">>
Q_1_L_spaced == <<" ","1"," ","L"," ">>
Q_2_01l == <<"2",".","0","1","l">>
Q_2010ml == <<"2","0","1","0","m","l">>
Q_1kg == <<"1","k","g">>
Q_1000g == <<"1","0","0","0","g">>
Q_2pc == <<"2","p","c">>
Q_2piece == <<"2","p","i","e","c","e">>
Q_2pieces == <<"2","p","i","e","c","e","s">>
Q_2pcs == <<"2","p","c","s">>
Q_2pack == <<"2","p","a","c","k">>
Q_minus_1l == <<"-","1","l">>
Q_1_5 == <<"1",".","5">>
Q_1_dot_l == <<"1",".","l">>
Q_510g == <<"5","1","0","g">>
Q_511g == <<"5","1","1","g">>
Q_100ml == <<"1","0","0","m","l">>
Q_102ml == <<"1","0","2","m","l">>
Q_104ml == <<"1","0","4","m","l">>
Q_1ml == <<"1","m","l">>
Q_2ml == <<"2","m","l">>
Q_3ml == <<"3","m","l">>
Q_6pcs == <<"6","p","c","s">>
Q_7pcs == <<"7","p","c","s">>
Q_6_4pcs == <<"6",".","4","p","c","s">>
Q_6_5pcs == <<"6",".","5","p","c","s">>
Q_2packs == <<"2","p","a","c","k","s">>
Q_3pack == <<"3","p","a","c","k">>

\* arguments of sameQty: request values (userQ) and stored quantity texts (dbQ)
QtyInputs ==
  {Null, Str(<< >>), Str(Q_big), Str(Q_5oz),
   Obj(Str(<<"1">>), Str(<<"L">>)), Obj(Null, Str(<<"m","l">>))}
  \cup {Str(t) : t \in {Q_500ML, Q_500ml_pad, Q_1000ml, Q_half_L, Q_500g, Q_half_kg, Q_510g, Q_511g,
                         Q_100ml, Q_102ml, Q_104ml, Q_1ml, Q_2ml, Q_3ml,
                         Q_6pcs, Q_6_PCS, Q_7pcs, Q_6_4pcs, Q_6_5pcs, Q_2packs, Q_3pack,
                         Q_1l, Q_1lt, Q_1liter, Q_1LITRE, Q_1_L_spaced, Q_2_01l, Q_2010ml,
                         Q_1kg, Q_1000g, Q_2pc, Q_2piece, Q_2pieces, Q_2pcs, Q_2pack,
                         Q_minus_1l, Q_1_5, Q_1_dot_l}}

InitQty ==
  /\ catalogue = {}
  /\ InitRest
  /\ lastQty \in [a : QtyInputs, b : QtyInputs, done : {FALSE}, same : {FALSE},
                  u : {NoQty}, d : {NoQty}]

\* sameQty(userQ, dbQ) is evaluated on the given arguments
SameQuantity ==
  /\ ~lastQty.done
  /\ lastQty' = [lastQty EXCEPT !.done = TRUE,
                                 !.u = toCanon(lastQty.a),
                                 !.d = toCanon(lastQty.b),
                                 !.same = sameQty(lastQty.a, lastQty.b)]
  /\ UNCHANGED <<catalogue, batchVars, creates, lastCreate, lastResolve, bulk, sites>>

NextQty == SameQuantity

SpecQty == InitQty /\ [][NextQty]_vars

\* ------------------------------------------------- POST /category/bulk
MaxUpdates == 2
PoolSize == 2

BulkUpdate(userID, itemID, category) ==
  [t |-> "obj", userID |-> userID, itemID |-> itemID, priceID |-> Str(K_1),
   chainShopID |-> Str(K_1), createdAt |-> Str(K_1), category |-> category]

\* the entries a request can carry in `updates`: one that matches stored
\* rows, one that matches none, one without category, one with a blank
\* userID, and null
BulkUpdates ==
  { BulkUpdate(Str(K_1), Str(K_1), Str(C_Food_pad)),
    BulkUpdate(Str(K_1), Str(K_9), Str(C_tea)),
    BulkUpdate(Str(K_1), Str(K_1), Null),
    BulkUpdate(Str(T_blank), Str(K_1), Str(C_tea)),
    Null }

BulkRequests == UNION {[1..n -> BulkUpdates] : n \in 0..MaxUpdates}

MustFields == {"userID", "itemID", "priceID", "chainShopID", "createdAt", "category"}

\* must.every(k => u[k] != null && String(u[k]).trim() !== '')
mustEvery(u) == \A k \in MustFields : ~IsNull(u[k]) /\ trim(String(u[k])) # << >>

\* UPDATE itemInput SET category = ? WHERE <five columns> = ? ORDER BY id DESC
\* LIMIT 1, with params of update u: the matching row of highest id gets the
\* trimmed, lower-cased category; affectedRows counts the rows matched
matchesOf(rowsNow, u) ==
  {r \in rowsNow : /\ r.userID = String(u.userID) /\ r.itemID = String(u.itemID)
                   /\ r.priceID = String(u.priceID) /\ r.chainShopID = String(u.chainShopID)
                   /\ r.createdAt = String(u.createdAt)}

execute(rowsNow, u) ==
  LET m == matchesOf(rowsNow, u)
  IN IF m = {} THEN [affectedRows |-> 0, rows |-> rowsNow]
     ELSE LET target == CHOOSE r \in m : \A o \in m : o.id <= r.id
              set == [target EXCEPT !.category = toLowerCase(trim(String(u.category)))]
          IN [affectedRows |-> 1, rows |-> (rowsNow \ {target}) \cup {set}]

\* variant: only updated rows are counted
tallyExecutedOkOnly(tally, affectedRows) ==
  IF affectedRows = 0 THEN tally ELSE [tally EXCEPT !.ok = @ + 1]

\* if (r.affectedRows === 0) miss++; else ok++;
tallyExecuted(tally, affectedRows) ==
  IF affectedRows = 0 THEN [tally EXCEPT !.miss = @ + 1] ELSE [tally EXCEPT !.ok = @ + 1]

\* the for loop from entry i on, up to its next await: entries that fail the
\* must check are counted as fail and passed over; u[k] of a null entry
\* throws a TypeError; a complete entry is next to be executed
RECURSIVE scanFrom(_, _, _)
scanFrom(updates, i, tally) ==
  IF i > Len(updates) THEN [pc |-> "commit", i |-> i, tally |-> tally, threw |-> ""]
  ELSE IF IsNull(updates[i])
    THEN [pc |-> "rollback", i |-> i, tally |-> tally, threw |-> "TypeError"]
  ELSE IF ~mustEvery(updates[i])
    THEN scanFrom(updates, i + 1, [tally EXCEPT !.fail = @ + 1])
  ELSE [pc |-> "execute", i |-> i, tally |-> tally, threw |-> ""]

BulkResponse(status, error, tally, count) ==
  [status |-> status, error |-> error, ok |-> tally.ok, miss |-> tally.miss,
   fail |-> tally.fail, count |-> count]

\* the request arrives: updates_required, or pool.getConnection(), which
\* throws or hands out a connection when the pool has one
BulkStart ==
  /\ bulk.pc = "idle"
  /\ \E updates \in BulkRequests, throws \in BOOLEAN :
       IF updates = << >>
         THEN bulk' = [bulk EXCEPT !.pc = "done", !.updates = updates, !.before = bulk.table,
                                   !.resp = BulkResponse(400, "updates_required", NoTally, 0)]
       ELSE IF throws
         THEN bulk' = [bulk EXCEPT !.pc = "done", !.updates = updates, !.before = bulk.table,
                                   !.threw = "getConnection",
                                   !.resp = BulkResponse(500, "server_error", NoTally, 0)]
       ELSE /\ bulk.leased < PoolSize
            /\ bulk' = [bulk EXCEPT !.pc = "begin", !.updates = updates, !.before = bulk.table,
                                    !.work = bulk.table, !.leased = @ + 1]
  /\ UNCHANGED <<itemVars, sites>>

\* await conn.beginTransaction(), then the loop up to its first await
BulkBegin ==
  /\ bulk.pc = "begin"
  /\ \E throws \in BOOLEAN :
       IF throws
         THEN bulk' = [bulk EXCEPT !.pc = "rollback", !.threw = "beginTransaction"]
       ELSE LET s == scanFrom(bulk.updates, 1, NoTally)
            IN bulk' = [bulk EXCEPT !.pc = s.pc, !.i = s.i, !.tally = s.tally, !.threw = s.threw]
  /\ UNCHANGED <<itemVars, sites>>

\* await conn.execute(sql, params) for entry i, then the loop up to its next
\* await
BulkExecute ==
  /\ bulk.pc = "execute"
  /\ \E throws \in BOOLEAN :
       IF throws
         THEN bulk' = [bulk EXCEPT !.pc = "rollback", !.threw = "execute"]
       ELSE LET r == execute(bulk.work, bulk.updates[bulk.i])
                s == scanFrom(bulk.updates, bulk.i + 1, tallyExecuted(bulk.tally, r.affectedRows))
            IN bulk' = [bulk EXCEPT !.pc = s.pc, !.i = s.i, !.tally = s.tally,
                                    !.threw = s.threw, !.work = r.rows]
  /\ UNCHANGED <<itemVars, sites>>

\* await conn.commit(); conn.release(); res.json({ ok, miss, fail, count })
BulkCommit ==
  /\ bulk.pc = "commit"
  /\ \E throws \in BOOLEAN :
       IF throws
         THEN bulk' = [bulk EXCEPT !.pc = "rollback", !.threw = "commit"]
       ELSE bulk' = [bulk EXCEPT !.pc = "done", !.table = bulk.work, !.leased = @ - 1,
                                 !.resp = BulkResponse(200, "", bulk.tally, Len(bulk.updates))]
  /\ UNCHANGED <<itemVars, sites>>

\* catch (inner) { try { await conn.rollback(); conn.release(); } catch {} throw inner; }
\* and the outer catch: when rollback throws, release is not reached
BulkRollback ==
  /\ bulk.pc = "rollback"
  /\ \E throws \in BOOLEAN :
       bulk' = [bulk EXCEPT !.pc = "done", !.work = bulk.table,
                            !.leased = IF throws THEN @ ELSE @ - 1,
                            !.threw = IF throws THEN "rollback" ELSE @,
                            !.resp = BulkResponse(500, "server_error", NoTally, 0)]
  /\ UNCHANGED <<itemVars, sites>>

\* the response is out; the handler is free for the next request
BulkReturn ==
  /\ bulk.pc = "done"
  /\ bulk' = BulkIdle(bulk.table, bulk.leased)
  /\ UNCHANGED <<itemVars, sites>>

NextBulk ==
  \/ BulkStart
  \/ BulkBegin
  \/ BulkExecute
  \/ BulkCommit
  \/ BulkRollback
  \/ BulkReturn

SpecBulk == Init /\ [][NextBulk]_vars

\* every await of the handler settles and every request is answered
SpecBulkFair == Init /\ [][NextBulk]_vars /\ WF_vars(NextBulk)

\* ------------------------------------------------- GET /regions/with-sites
MaxSiteRows == 3
MaxConcurrency == 2

\* Number.NaN
NaN == -1

Min(a, b) == IF a <= b THEN a ELSE b

\* parseInt(t, 10) of a text without sign or leading white space
parseInt(t) ==
  Only({IF n = 0 THEN NaN ELSE DigitsToNat(SubSeq(t, 1, n)) : n \in {DigitRun(t, 1)}})

\* Math.max(1, Math.min(parseInt(req.query.concurrency ?? '6', 10), 16)); NaN
\* goes through Math.min and Math.max as NaN
concurrencyOf(param) ==
  Only({IF n = NaN THEN NaN ELSE Max(1, Min(n, 16)) :
          n \in {parseInt(IF IsNull(param) THEN <<"6">> ELSE param.s)}})

\* Array.from({ length: limit }, ...).length: a length of NaN is 0
workersOf(limit) == IF limit = NaN THEN 0 ELSE limit

\* req.query.concurrency: absent, a number, or text that is no number
ConcurrencyParams ==
  {Null, Str(<<"a","b","c">>)} \cup {Str(<<Digits[n + 1]>>) : n \in 1..MaxConcurrency}

\* per row, whether timezoneURL is set
SiteRows == UNION {[1..n -> BOOLEAN] : n \in 0..MaxSiteRows}

\* what fetchOne(url) can return
fetchOne(hasUrl) == IF hasUrl THEN {"fetched", "timeout", "error"} ELSE {"no_url"}

\* const i = next++; if (i >= items.length) break; out[i] = await fn(items[i], i)
\* of worker k, up to the await (row indices are kept from 1, 0: the worker
\* has left its loop)
takeNext(st, k) ==
  IF st.next >= Len(st.urls)
    THEN [st EXCEPT !.next = @ + 1, !.at[k] = 0]
    ELSE [st EXCEPT !.next = @ + 1, !.at[k] = st.next + 1, !.taken[st.next + 1] = @ + 1]

\* Array.from({ length: limit }, async () => ...): the workers 1..k start one
\* after the other, each up to its first await
RECURSIVE startWorkers(_, _)
startWorkers(st, k) ==
  IF k = 0 THEN st ELSE takeNext(startWorkers(st, k - 1), k)

SitesResponse(status, partial, rowsOut) ==
  [status |-> status, partial |-> partial, rows |-> rowsOut]

\* Promise.all(workers) resolves once every worker has left its loop:
\* enriched = out, partial stays false
settleIfDone(st) ==
  IF \A k \in 1..Len(st.at) : st.at[k] = 0
    THEN [st EXCEPT !.pc = "done", !.resp = SitesResponse(200, FALSE, st.out)]
    ELSE st

\* the request arrives: the SELECT throws, or the rows are read and
\* mapLimited starts its workers
SitesStart ==
  /\ sites.pc = "idle"
  /\ \E urls \in SiteRows, param \in ConcurrencyParams, throws \in BOOLEAN :
       IF throws
         THEN sites' = [NoSites EXCEPT !.pc = "done", !.urls = urls,
                                       !.resp = SitesResponse(500, FALSE, << >>)]
       ELSE LET limit == concurrencyOf(param)
                n == workersOf(limit)
                st == [NoSites EXCEPT !.pc = "running", !.urls = urls, !.limit = limit,
                                      !.out = [i \in 1..Len(urls) |-> ""],
                                      !.taken = [i \in 1..Len(urls) |-> 0],
                                      !.at = [k \in 1..n |-> 0]]
            IN sites' = settleIfDone(startWorkers(st, n))
  /\ UNCHANGED <<itemVars, bulk>>

\* the fetch of worker k settles: out[i] is set and the worker goes on to the
\* next index
FetchSettles(k) ==
  /\ sites.pc = "running"
  /\ k \in 1..Len(sites.at)
  /\ sites.at[k] > 0
  /\ \E site \in fetchOne(sites.urls[sites.at[k]]) :
       sites' = settleIfDone(takeNext([sites EXCEPT !.out[sites.at[k]] = site], k))
  /\ UNCHANGED <<itemVars, bulk>>

\* overallTimer fires while workers are still running: mapLimited rejects
\* before `enriched` is assigned, so the catch builds the answer from
\* (enriched ?? []) and rows.slice(0): every row is marked timeout
Deadline ==
  /\ sites.pc = "running"
  /\ sites' = [sites EXCEPT !.pc = "done", !.aborted = TRUE,
                            !.resp = SitesResponse(200, TRUE,
                                       [i \in 1..Len(sites.urls) |-> "timeout"])]
  /\ UNCHANGED <<itemVars, bulk>>

\* the response is out
SitesReturn ==
  /\ sites.pc = "done"
  /\ sites' = NoSites
  /\ UNCHANGED <<itemVars, bulk>>

NextSites ==
  \/ SitesStart
  \/ \E k \in 1..16 : FetchSettles(k)
  \/ Deadline
  \/ SitesReturn

SpecSites == Init /\ [][NextSites]_vars

\* ===================================================================== claims
\* vocabulary of the claims, stated without the operators of the model

\* two characters equal up to letter case
SameLetter(a, b) ==
  a = b \/ \E i \in 1..26 : {a, b} = {UpperLetters[i], LowerLetters[i]}

\* s without its leading and trailing white space
RECURSIVE Bare(_)
Bare(s) ==
  IF s = << >> THEN s
  ELSE IF Head(s) \in {" ", "\t", "\n", "\r"} THEN Bare(Tail(s))
  ELSE IF s[Len(s)] \in {" ", "\t", "\n", "\r"} THEN Bare(SubSeq(s, 1, Len(s) - 1))
  ELSE s

\* the text of a field, an absent/NULL field being the empty text
TextOf(v) == IF v.t = "str" THEN v.s ELSE << >>

\* two fields equal after trimming and lower-casing, NULL being empty
SameField(a, b) ==
  LET x == Bare(TextOf(a))
      y == Bare(TextOf(b))
  IN Len(x) = Len(y) /\ \A i \in 1..Len(x) : SameLetter(x[i], y[i])

\* equal identity keys
SameKey(a, b) ==
  /\ SameField(a.name, b.name) /\ SameField(a.brand, b.brand)
  /\ SameField(a.quantity, b.quantity) /\ SameField(a.feature, b.feature)

\* a batch row with no name or no brand once trimmed
NoNameOrBrand(row) == Bare(TextOf(row.name)) = << >> \/ Bare(TextOf(row.brand)) = << >>

Ids(table) == {r.id : r \in table}

ReturnedResults(w) == pc[w] = "done" /\ outcome[w].kind = "results"
ReturnedError(w) == pc[w] = "done" /\ outcome[w].kind = "error"

\* row i of the call of w got the result of a fresh insert
Minted(w, i) ==
  i <= Len(results[w]) /\ results[w][i].ok /\ ~results[w][i].existed

\* the ids in table `item` that the transaction of w saw when it made the
\* insert attempts of row i, in a call that no other call overlaps
IdsSeenAt(w, i) ==
  Ids(cat0[w]) \cup {results[w][j].id : j \in {k \in 1..(i - 1) : Minted(w, k)}}

\* ---------------------------------------------------------------------- C1
\* C1: after any sequence of find-or-create batch calls the catalogue never
\* holds two records for the same brand and name whose quantities are
\* different texts of the same canonical quantity (545ML / 0.545L, 6 PCS /
\* 6pcs).  Violated: the lookup compares trimmed, lower-cased texts, so a row
\* with 0.5L does not match a record with 500ML and a second record is stored.
C1_NoEquivalentQuantityTwins ==
  \A r1, r2 \in catalogue :
    (/\ r1 # r2
     /\ SameField(r1.name, r2.name) /\ SameField(r1.brand, r2.brand)
     /\ r1.quantity # r2.quantity
     /\ toCanon(r1.quantity) # NoQty)
    => toCanon(r1.quantity) # toCanon(r2.quantity)

\* ---------------------------------------------------------------------- C2
\* C2: a valid row submitted in two non-overlapping calls gets existed:false
\* and a new id in the first (the row is stored under it) and existed:true
\* with that same id in the second, which inserts no record.
C2_BatchIdempotence ==
  \A w \in Workers : ReturnedResults(w) =>
    \A i \in 1..Len(rows[w]) :
      LET row == rows[w][i]
          earlier == {rec \in cat0[w] : rec = BatchRow(rec.id, row)}
          first == \A j \in 1..(i - 1) : ~SameKey(rows[w][j], row)
      IN ~NoNameOrBrand(row) =>
           /\ earlier # {} =>
                /\ \E rec \in earlier : results[w][i] = RowDone(TRUE, rec.id)
                /\ \A new \in catalogue \ cat0[w] : ~SameKey(new, row)
           /\ ((\A rec \in cat0[w] : ~SameKey(rec, row)) /\ first) =>
                /\ results[w][i].ok /\ ~results[w][i].existed
                /\ results[w][i].id \notin Ids(cat0[w])
                /\ BatchRow(results[w][i].id, row) \in catalogue

\* C2 witness: the second of two calls has returned existed:true for a row
\* that an earlier call stored
C2_Witness ==
  \E w \in Workers : ReturnedResults(w) /\
    \E i \in 1..Len(rows[w]) : \E rec \in cat0[w] :
      rec = BatchRow(rec.id, rows[w][i]) /\ results[w][i] = RowDone(TRUE, rec.id)

\* ---------------------------------------------------------------------- C3
\* C3: when the row looked up has the identity key of a visible record
\* (whatever the casing, surrounding white space or NULL / empty form of
\* either side), the result is ok, existed, with the id of such a record, and
\* nothing is inserted.
C3_MatchResolves ==
  [][\A w \in Workers :
       (pc[w] = "lookup" /\ (pos'[w] # pos[w] \/ pc'[w] = "insert"))
       => LET row == rows[w][pos[w]]
              match == {rec \in catalogue \cup pending[w] : SameKey(rec, row)}
          IN match # {} =>
               /\ pos'[w] > pos[w]
               /\ \E rec \in match : results'[w][pos[w]] = RowDone(TRUE, rec.id)
               /\ pending' = pending /\ catalogue' = catalogue]_vars

\* C3 witness: a row was resolved to a record whose stored name and feature
\* differ from the row's in casing and in NULL versus empty
C3_Witness ==
  \E w \in Workers : \E i \in 1..Len(results[w]) : \E rec \in catalogue :
    /\ results[w][i] = RowDone(TRUE, rec.id)
    /\ rec.name # trimmed(rows[w][i].name)
    /\ rec.feature = Null /\ rows[w][i].feature = Str(<< >>)
    /\ rows[w][i].name # trimmed(rows[w][i].name)

\* ---------------------------------------------------------------------- C4
\* C4: all-or-nothing.  While a call is open the catalogue is what it was when
\* the call began; a call that ends in an error leaves the catalogue as it was
\* before the call, keeps no row of its transaction, and gives the caller one
\* batch-level error without row results; results are returned only by a
\* commit made after every row has been processed.
C4_AllOrNothing ==
  \A w \in Workers :
    /\ Active(w) => catalogue = cat0[w]
    /\ ReturnedError(w) =>
         /\ catalogue = cat0[w]
         /\ pending[w] = {}
         /\ outcome[w] = [kind |-> "error", error |-> "server_error", results |-> << >>]
    /\ ReturnedResults(w) =>
         /\ pos[w] = Len(rows[w]) + 1
         /\ Len(results[w]) = Len(rows[w])
         /\ outcome[w].results = results[w]
         /\ pending[w] = {}
         /\ Ids(catalogue) = Ids(cat0[w]) \cup {results[w][i].id : i \in {k \in 1..Len(rows[w]) : Minted(w, k)}}

\* C4 witness: a call ended in an error after one of its rows had been inserted
C4_Witness ==
  \E w \in Workers : ReturnedError(w) /\
    \E i \in 1..Len(results[w]) : Minted(w, i) /\ results[w][i].id \notin Ids(catalogue)

\* ---------------------------------------------------------------------- C5
\* C5: no row gets more than 3 insert attempts; when the 3 ids generated for a
\* row all collide with ids already in the table, the call ends in the
\* batch-level error with nothing of the batch persisted, and the row gets no
\* per-row result.
C5_RetryBudget ==
  \A w \in Workers : \A i \in 1..Len(tried[w]) :
    /\ Len(tried[w][i]) <= 3
    /\ (Len(tried[w][i]) = 3 /\ \A k \in 1..3 : tried[w][i][k] \in IdsSeenAt(w, i))
       => /\ ReturnedError(w)
          /\ pos[w] = i /\ Len(results[w]) < i
          /\ catalogue = cat0[w] /\ pending[w] = {}

\* C5 witness: an earlier row of the batch had been inserted when a later row
\* used up its 3 attempts on taken ids
C5_Witness ==
  \E w \in Workers : ReturnedError(w) /\ pos[w] <= Len(rows[w]) /\
    /\ Len(tried[w][pos[w]]) = 3
    /\ \A k \in 1..3 : tried[w][pos[w]][k] \in IdsSeenAt(w, pos[w])
    /\ \E j \in 1..(pos[w] - 1) : Minted(w, j)

C7_RaceLeavesTwins ==
  \A w1, w2 \in Workers :
    (w1 # w2 /\ ReturnedResults(w1) /\ ReturnedResults(w2)) =>
      \A i \in 1..Len(rows[w1]) : \A j \in 1..Len(rows[w2]) :
        (Minted(w1, i) /\ Minted(w2, j) /\ SameKey(rows[w1][i], rows[w2][j])
           /\ results[w1][i].id \notin Ids(cat0[w2]) /\ results[w2][j].id \notin Ids(cat0[w1]))
        => /\ results[w1][i].id # results[w2][j].id
           /\ \E r1, r2 \in catalogue :
                /\ r1.id = results[w1][i].id /\ r2.id = results[w2][j].id
                /\ SameKey(r1, r2) /\ SameKey(r1, rows[w1][i])

\* C7 witness: both calls missed the lookup, both inserted, both committed
C7_Witness ==
  \E w1, w2 \in Workers : w1 # w2 /\ ReturnedResults(w1) /\ ReturnedResults(w2) /\
    \E i \in 1..Len(rows[w1]) : \E j \in 1..Len(rows[w2]) :
      /\ Minted(w1, i) /\ Minted(w2, j) /\ SameKey(rows[w1][i], rows[w2][j])
      /\ \E r1, r2 \in catalogue : r1.id # r2.id /\ SameKey(r1, r2)
                                     /\ r1.id = results[w1][i].id /\ r2.id = results[w2][j].id

\* ---------------------------------------------------------------------- C8
\* C8: a row whose name or brand is empty after trimming gets ok:false with
\* name_and_brand_required, is never looked up or inserted, and does not stop
\* the batch: in a returned batch every valid row has been resolved or
\* inserted and its record is in the catalogue.
C8_PartialValidity ==
  \A w \in Workers :
    /\ pc[w] \in {"lookup", "insert"} => ~NoNameOrBrand(rows[w][pos[w]])
    /\ \A i \in 1..Len(rows[w]) : NoNameOrBrand(rows[w][i]) =>
         /\ tried[w][i] = << >>
         /\ (i < pos[w] \/ (pc[w] = "done" /\ i <= Len(results[w])))
            => results[w][i] = RowFailed("name_and_brand_required")
    /\ ReturnedResults(w) =>
         \A i \in 1..Len(rows[w]) : ~NoNameOrBrand(rows[w][i]) =>
           /\ results[w][i].ok
           /\ \E rec \in catalogue : rec.id = results[w][i].id /\ SameKey(rec, rows[w][i])

\* C8 witness: a returned batch with an invalid row before a freshly inserted one
C8_Witness ==
  \E w \in Workers : ReturnedResults(w) /\
    \E i, j \in 1..Len(rows[w]) :
      /\ i < j /\ results[w][i] = RowFailed("name_and_brand_required")
      /\ Minted(w, j) /\ BatchRow(results[w][j].id, rows[w][j]) \in catalogue

C10_ExactIdIffUnique ==
  lastResolve.status = 200 =>
    /\ (lastResolve.exactId # Null) <=> (Len(lastResolve.candidates) = 1)
    /\ Len(lastResolve.candidates) = 1
         => lastResolve.exactId = Str(lastResolve.candidates[1].id)
    /\ \A i \in 1..Len(lastResolve.candidates) : lastResolve.candidates[i].id \in Ids(catalogue)

\* C10 witness: of two records of the brand and name, 500ml and 1000ml, a query
\* for 500ML got exactly the first
C10_Witness ==
  /\ lastResolve.status = 200
  /\ lastResolve.query.quantity = Str(Q_500ML)
  /\ Cardinality(findByExactBrandName(catalogue, T_Cola, T_Acme)) = 2
  /\ \E a, b \in catalogue :
       /\ a.quantity = Str(Q_500ml) /\ b.quantity = Str(Q_1000ml)
       /\ lastResolve.exactId = Str(a.id)
       /\ Len(lastResolve.candidates) = 1

\* --------------------------------------------------------------------- C11
\* C11: the candidates of a successful resolve (no feature narrowing asked)
\* are exactly the catalogue records whose name and brand equal the query's
\* item and brand up to letter case -- the whole text, not a part of it -- and,
\* when a quantity is supplied, whose quantity is sameQty-equivalent to it;
\* without a quantity every such record is returned.
C11_CandidatesExact ==
  (lastResolve.status = 200 /\ lastResolve.query.selectedFeatures = << >>) =>
    LET q == lastResolve.query
        cands == lastResolve.candidates
        supplied == q.quantity # Null /\ q.quantity # Str(<< >>)
        expect == {r \in catalogue :
                     /\ r.name # Null /\ SameField(r.name, q.item)
                     /\ r.brand # Null /\ SameField(r.brand, q.brand)
                     /\ supplied => sameQty(q.quantity, r.quantity)}
    IN /\ Len(cands) = Cardinality(expect)
       /\ \A r \in expect : \E i \in 1..Len(cands) :
            /\ cands[i].id = r.id
            /\ cands[i].name = TextOf(r.name) /\ cands[i].brand = TextOf(r.brand)
            /\ cands[i].quantity = TextOf(r.quantity)
            /\ cands[i].feature = TextOf(r.feature)

\* C11 witness: with records named Cola and Cola zero in the catalogue, a
\* query for " cola " without quantity got the record named Cola only
C11_Witness ==
  /\ lastResolve.status = 200
  /\ lastResolve.query.quantity = Null
  /\ lastResolve.query.item = Str(T_cola_pad)
  /\ Len(lastResolve.candidates) = 1
  /\ lastResolve.candidates[1].name = T_Cola
  /\ \E r \in catalogue : r.name = Str(T_Cola_zero) /\ r.brand = Str(T_Acme)

\* --------------------------------------------------------------------- C12
\* C12: in strict mode with a quantity in the query, every candidate returned
\* has a quantity that is comparable with the query's (both normalize) and
\* equivalent to it; when nothing is comparable no candidate is returned.
\* Violated by the handler that reads strictQty (routes/item.js): sameQty
\* answers true when either side does not normalize, so a strict query with
\* quantity "big" gets every brand/name match.
C12_StrictKeepsComparableOnly ==
  LET q == lastResolve.query
  IN (/\ lastResolve.status = 200
      /\ lastResolve.handler = "strict"
      /\ q.strictQty
      /\ q.quantity # Null /\ q.quantity # Str(<< >>))
     => \A i \in 1..Len(lastResolve.candidates) :
          LET c == lastResolve.candidates[i]
          IN /\ toCanon(q.quantity) # NoQty
             /\ toCanon(Str(c.quantity)) # NoQty
             /\ sameQty(q.quantity, Str(c.quantity))

\* --------------------------------------------------------------------- C13
\* C13: a resolve query with strictQty = true, a brand and an item, and no
\* usable quantity (missing, null, empty, or a value that does not normalize
\* to a canonical quantity) is answered with quantity_required_in_strict_mode
\* and no candidates, unless the storage fails.  Violated: the handlers of
\* index.js do not read strictQty, and the handler of routes/item.js raises
\* the error only for a missing, null or empty quantity.
C13_StrictNeedsUsableQuantity ==
  LET q == lastResolve.query
  IN (/\ lastResolve.handler # "none"
      /\ q.strictQty
      /\ Bare(TextOf(q.brand)) # << >> /\ Bare(TextOf(q.item)) # << >>
      /\ toCanon(q.quantity) = NoQty
      /\ lastResolve.status # 500)
     => /\ lastResolve.status = 400
        /\ lastResolve.error = "quantity_required_in_strict_mode"
        /\ lastResolve.candidates = << >>

\* --------------------------------------------------------------------- C14
\* the catalogue records that pass the brand/name match and the quantity
\* filter of the last query
PassingFilters ==
  LET q == lastResolve.query
  IN {r \in catalogue :
        /\ r.name # Null /\ SameField(r.name, q.item)
        /\ r.brand # Null /\ SameField(r.brand, q.brand)
        /\ (q.quantity # Null /\ q.quantity # Str(<< >>)) => sameQty(q.quantity, r.quantity)}

\* the trimmed, lower-cased, non-empty comma-separated tokens of a feature field
TokensOf(feature) ==
  LET f == splitFeaturesCSV(TextOf(feature)) IN {f[i] : i \in 1..Len(f)}

\* C14: suggestedFeatures of a successful resolve is, without repetition, the
\* set of feature tokens of all records that passed the brand/name and
\* quantity filters, whether or not the feature narrowing keeps them.
\* Violated: the handler that answers POST /api/items/resolve in index.js (the
\* first registered) and the handler of routes/item.js always return [].
C14_SuggestedFeaturesUnion ==
  lastResolve.status = 200 =>
    LET sf == lastResolve.suggestedFeatures
    IN /\ {sf[i] : i \in 1..Len(sf)} = UNION {TokensOf(r.feature) : r \in PassingFilters}
       /\ \A i, j \in 1..Len(sf) : sf[i] = sf[j] => i = j

\* --------------------------------------------------------------------- C15
\* the required feature tokens of the last query, trimmed and lower-cased
RequiredTokens ==
  LET sel == lastResolve.query.selectedFeatures
  IN {toLowerCase(Bare(sel[i])) : i \in 1..Len(sel)} \ {<< >>}

\* C15: when the query has required features, the candidates returned are
\* exactly the records that passed the brand/name and quantity filters and
\* whose feature tokens include every required token; no other record is a
\* candidate or the exactId.  Violated: the first handler registered in
\* index.js and the handler of routes/item.js do not read selectedFeatures.
C15_RequiredFeaturesNarrow ==
  (lastResolve.status = 200 /\ RequiredTokens # {}) =>
    LET cands == lastResolve.candidates
        expect == {r \in PassingFilters : RequiredTokens \subseteq TokensOf(r.feature)}
    IN /\ {cands[i].id : i \in 1..Len(cands)} = Ids(expect)
       /\ Len(cands) = Cardinality(expect)
       /\ lastResolve.exactId # Null => lastResolve.exactId \in {Str(r.id) : r \in expect}

\* --------------------------------------------------------------------- C16
\* C16: a resolve query whose brand or item is missing or empty once trimmed
\* is answered 400 brand_and_item_required with no candidates -- never with a
\* result or an error of the catalogue lookup -- and no other query gets that
\* error.
C16_BrandAndItemRequired ==
  lastResolve.handler # "none" =>
    LET q == lastResolve.query
        blank == Bare(TextOf(q.brand)) = << >> \/ Bare(TextOf(q.item)) = << >>
    IN /\ blank => /\ lastResolve.status = 400
                   /\ lastResolve.error = "brand_and_item_required"
                   /\ lastResolve.candidates = << >>
                   /\ lastResolve.exactId = Null
       /\ lastResolve.error = "brand_and_item_required" => blank

\* C16 witness: a query with an item and a brand of one space was rejected
\* although the catalogue holds records
C16_Witness ==
  /\ lastResolve.error = "brand_and_item_required"
  /\ lastResolve.query.brand = Str(T_blank)
  /\ lastResolve.query.item = Str(T_cola_pad)
  /\ catalogue # {}

\* --------------------------------------------------------------------- C17
\* the arguments that have no canonical quantity: null, the empty text, text
\* that is no <number><unit>, a unit outside ml/g/pcs/pack, an object
\* without a value
Unknowns ==
  {Null, Str(<< >>), Str(Q_big), Str(Q_5oz), Obj(Null, Str(<<"m","l">>))}

\* C17: whenever either argument has no canonical quantity, sameQty answers
\* true.
C17_UnknownPassesFilter ==
  (lastQty.done /\ (lastQty.a \in Unknowns \/ lastQty.b \in Unknowns)) => lastQty.same

\* C17 witness: sameQty of a quantity in an unsupported unit and 500ML was
\* evaluated true
C17_Witness ==
  /\ lastQty.done /\ lastQty.same
  /\ lastQty.a = Str(Q_5oz) /\ lastQty.b = Str(Q_500ML)

\* --------------------------------------------------------------------- C18
\* what each quantity argument says, read off its text: the canonical unit
\* and the amount in tenths of that unit (0.5L is 500 ml, 0.5kg is 500 g,
\* {value: 1, unit: "L"} is 1000 ml)
Measure(q, unit, tenths) == [q |-> q, unit |-> unit, tenths |-> tenths]
Measured ==
  { Measure(Str(Q_500ML), "ml", 5000), Measure(Str(Q_500ml_pad), "ml", 5000),
    Measure(Str(Q_1000ml), "ml", 10000), Measure(Str(Q_half_L), "ml", 5000),
    Measure(Obj(Str(<<"1">>), Str(<<"L">>)), "ml", 10000),
    Measure(Str(Q_100ml), "ml", 1000), Measure(Str(Q_102ml), "ml", 1020),
    Measure(Str(Q_104ml), "ml", 1040), Measure(Str(Q_1ml), "ml", 10),
    Measure(Str(Q_2ml), "ml", 20), Measure(Str(Q_3ml), "ml", 30),
    Measure(Str(Q_500g), "g", 5000), Measure(Str(Q_half_kg), "g", 5000),
    Measure(Str(Q_510g), "g", 5100), Measure(Str(Q_511g), "g", 5110),
    Measure(Str(Q_6pcs), "pcs", 60), Measure(Str(Q_6_PCS), "pcs", 60),
    Measure(Str(Q_7pcs), "pcs", 70), Measure(Str(Q_6_4pcs), "pcs", 64),
    Measure(Str(Q_6_5pcs), "pcs", 65),
    Measure(Str(Q_2packs), "pack", 20), Measure(Str(Q_3pack), "pack", 30) }

\* the two measures of the last sameQty evaluation, when both arguments have
\* one
MeasuredPairs ==
  {xy \in Measured \X Measured : xy[1].q = lastQty.a /\ xy[2].q = lastQty.b}

Apart(m, n) == IF m < n THEN n - m ELSE m - n
Larger(m, n) == IF m < n THEN n ELSE m

\* |a - b| <= max(1, 0.02 * max(a, b)) on amounts in tenths
WithinTolerance(m, n) == 50 * Apart(m, n) <= Larger(500, Larger(m, n))

\* C18: two quantities that are both in ml or both in g are the same exactly
\* when |a - b| <= max(1, 0.02 * max(a, b)): 100ml and 102ml are, 100ml and
\* 104ml are not, two quantities at most 1 apart always are.
C18_VolumeWeightTolerance ==
  lastQty.done =>
    /\ \A xy \in MeasuredPairs :
         (xy[1].unit = xy[2].unit /\ xy[1].unit \in {"ml", "g"}) =>
           /\ lastQty.same <=> WithinTolerance(xy[1].tenths, xy[2].tenths)
           /\ Apart(xy[1].tenths, xy[2].tenths) <= 10 => lastQty.same
    /\ (lastQty.a = Str(Q_100ml) /\ lastQty.b = Str(Q_102ml)) => lastQty.same
    /\ (lastQty.a = Str(Q_100ml) /\ lastQty.b = Str(Q_104ml)) => ~lastQty.same

\* C18 witness: sameQty of 100ml and 102ml was evaluated true
C18_Witness ==
  /\ lastQty.done /\ lastQty.same
  /\ lastQty.a = Str(Q_100ml) /\ lastQty.b = Str(Q_102ml)

\* --------------------------------------------------------------------- C19
\* C19: two quantities that are both in pcs or both in pack are the same
\* exactly when |a - b| < 0.5: 6pcs and 7pcs are not, equal counts are.
C19_CountTolerance ==
  lastQty.done =>
    /\ \A xy \in MeasuredPairs :
         (xy[1].unit = xy[2].unit /\ xy[1].unit \in {"pcs", "pack"}) =>
           /\ lastQty.same <=> Apart(xy[1].tenths, xy[2].tenths) < 5
           /\ xy[1].tenths = xy[2].tenths => lastQty.same
    /\ (lastQty.a = Str(Q_6pcs) /\ lastQty.b = Str(Q_7pcs)) => ~lastQty.same

\* C19 witness: sameQty of 6pcs and 7pcs was evaluated false
C19_Witness ==
  /\ lastQty.done /\ ~lastQty.same
  /\ lastQty.a = Str(Q_6pcs) /\ lastQty.b = Str(Q_7pcs)

\* --------------------------------------------------------------------- C20
\* C20: two quantities whose canonical units differ are not the same,
\* whatever their amounts: 500ml and 500g are not.
C20_DifferentUnitsDiffer ==
  lastQty.done =>
    /\ \A xy \in MeasuredPairs : xy[1].unit # xy[2].unit => ~lastQty.same
    /\ (lastQty.a = Str(Q_500ML) /\ lastQty.b = Str(Q_500g)) => ~lastQty.same

\* C20 witness: sameQty of 500ML and 500g was evaluated false
C20_Witness ==
  /\ lastQty.done /\ ~lastQty.same
  /\ lastQty.a = Str(Q_500ML) /\ lastQty.b = Str(Q_500g)

\* --------------------------------------------------------------------- C21
\* C21: sameQty gives the same answer with its two arguments exchanged, for
\* texts, {value, unit} objects, null and unparsable text alike.
C21_EquivalenceSymmetry ==
  lastQty.done => lastQty.same = sameQty(lastQty.b, lastQty.a)

\* C21 witness: sameQty of null and the object {value: 1, unit: "L"} was
\* evaluated true
C21_Witness ==
  /\ lastQty.done /\ lastQty.same
  /\ lastQty.a = Null /\ lastQty.b = Obj(Str(<<"1">>), Str(<<"L">>))

\* --------------------------------------------------------------------- C22
\* pairs of quantity texts that the alias rules make one quantity: litres
\* and 1000 times as many ml, kg and 1000 times as many g, the spellings of
\* piece, packs and pack, and texts that differ in letter case or white space
AliasPairs ==
  { <<Str(Q_1l), Str(Q_1000ml)>>, <<Str(Q_1lt), Str(Q_1000ml)>>,
    <<Str(Q_1liter), Str(Q_1000ml)>>, <<Str(Q_1LITRE), Str(Q_1000ml)>>,
    <<Str(Q_half_L), Str(Q_500ML)>>, <<Str(Q_2_01l), Str(Q_2010ml)>>,
    <<Str(Q_1kg), Str(Q_1000g)>>, <<Str(Q_half_kg), Str(Q_500g)>>,
    <<Str(Q_2pc), Str(Q_2pcs)>>, <<Str(Q_2piece), Str(Q_2pcs)>>,
    <<Str(Q_2pieces), Str(Q_2pcs)>>, <<Str(Q_2packs), Str(Q_2pack)>>,
    <<Str(Q_500ML), Str(Q_500ml_pad)>>, <<Str(Q_6_PCS), Str(Q_6pcs)>>,
    <<Str(Q_1_L_spaced), Str(Q_1l)>>, <<Str(Q_1LITRE), Str(Q_1liter)>> }

\* the canonical quantity c is exactly `whole` of the unit written unitText
IsAmount(c, unitText, whole) ==
  c.unit = unitText /\ c.value = whole * Scale /\ c.ulps = 0

\* C22: the two texts of every alias pair have the same canonical quantity
\* (n litres is 1000*n ml, n kg is 1000*n g, pc, piece, pieces and pcs are
\* one unit, packs is pack, letter case and white space do not matter), and
\* ml and g keep their magnitude.
C22_AliasNormalization ==
  lastQty.done =>
    /\ <<lastQty.a, lastQty.b>> \in AliasPairs =>
         (lastQty.u # NoQty /\ lastQty.u = lastQty.d)
    /\ lastQty.a = Str(Q_100ml) => IsAmount(lastQty.u, <<"m","l">>, 100)
    /\ lastQty.a = Str(Q_500g) => IsAmount(lastQty.u, <<"g">>, 500)
    /\ lastQty.a = Str(Q_2pieces) => IsAmount(lastQty.u, <<"p","c","s">>, 2)
    /\ lastQty.a = Str(Q_2packs) => IsAmount(lastQty.u, <<"p","a","c","k">>, 2)
    /\ lastQty.a = Str(Q_1liter) => IsAmount(lastQty.u, <<"m","l">>, 1000)
    /\ lastQty.a = Str(Q_1kg) => IsAmount(lastQty.u, <<"g">>, 1000)

\* --------------------------------------------------------------------- C23
\* the four base units as they are written
FourBaseUnits == {<<"m","l">>, <<"g">>, <<"p","c","s">>, <<"p","a","c","k">>}

\* a canonical quantity is null, or a non-negative value in a base unit
WellFormed(c) == c = NoQty \/ (c.unit \in FourBaseUnits /\ c.value >= 0)

\* texts that are no <number><unit-letters>, or whose unit is none of the
\* aliases: no number, a sign, no unit, a dot without decimals, ounces
NotQuantities ==
  {Str(Q_big), Str(Q_minus_1l), Str(Q_1_5), Str(Q_1_dot_l), Str(Q_5oz)}

\* C23: every canonical quantity that is not null has a non-negative value
\* and one of the four base units (litres and kilograms are reduced to ml
\* and g), and every text that is no <number><unit-letters> or whose unit
\* is outside the base units gives null.
C23_BaseUnitsOnly ==
  lastQty.done =>
    /\ WellFormed(lastQty.u) /\ WellFormed(lastQty.d)
    /\ lastQty.a \in NotQuantities => lastQty.u = NoQty
    /\ lastQty.b \in NotQuantities => lastQty.d = NoQty
    /\ lastQty.a \in {Str(Q_1l), Str(Q_half_L)} => lastQty.u.unit = <<"m","l">>
    /\ lastQty.a \in {Str(Q_1kg), Str(Q_half_kg)} => lastQty.u.unit = <<"g">>

\* C23 witness: 1kg was reduced to grams and the text 1.5, which has no
\* unit, gave null
C23_Witness ==
  /\ lastQty.done
  /\ lastQty.a = Str(Q_1kg) /\ lastQty.u.unit = <<"g">> /\ lastQty.u.value > 0
  /\ lastQty.b = Str(Q_1_5) /\ lastQty.d = NoQty

\* --------------------------------------------------------------------- C24
\* C24: no resolve step changes the catalogue, whether it answers with
\* candidates, with a validation error or with a server error; every later
\* resolve therefore reads the records the earlier ones read.
C24_ResolveReadOnly == [][catalogue' = catalogue]_vars

\* C24 witness: a resolve answered with a server error over a catalogue of
\* two records
C24_Witness ==
  /\ lastResolve.status = 500
  /\ Cardinality(catalogue) = 2

\* --------------------------------------------------------------------- C25
\* the records a step adds to the catalogue
Added == catalogue' \ catalogue

\* worker w's call ends in this step, committed or aborted
EndsCommitted(w) == pc[w] # "done" /\ pc'[w] = "done" /\ outcome'[w].kind = "results"
EndsAborted(w) == pc[w] # "done" /\ pc'[w] = "done" /\ outcome'[w].kind = "error"

\* C25: every step of a batch call or a direct create keeps every record of
\* the catalogue as it is (same id, name, brand, quantity, feature); an
\* aborted batch call adds nothing; every record added is one written by the
\* batch call that commits in that step or the one a successful create
\* stored.
C25_RecordsKept ==
  [][/\ catalogue \subseteq catalogue'
     /\ \A w \in Workers : EndsAborted(w) => catalogue' = catalogue
     /\ \A r \in Added :
          \/ \E w \in Workers : EndsCommitted(w) /\ r \in pending[w]
          \/ /\ creates' = creates + 1
             /\ lastCreate'.status = 201
             /\ \E i \in 1..Len(lastCreate'.ids) : lastCreate'.ids[i] = r.id]_vars

\* C25 witness: the catalogue holds two records, the last create stored one
\* of them, and a batch call has just been aborted
C25_Witness ==
  /\ Cardinality(catalogue) = 2
  /\ lastCreate.status = 201
  /\ \E r \in catalogue : lastCreate.ids = <<r.id>>
  /\ \E w \in Workers : pc[w] = "done" /\ outcome[w].kind = "error"

\* --------------------------------------------------------------------- C26
\* C26: with batch calls that do not overlap, no two records of the
\* catalogue have the same identity key; and when a returned batch holds a
\* new row twice, the first occurrence is answered existed:false, the second
\* existed:true with the id of the first, and one record with that key has
\* been inserted.
C26_NoKeyTwinsSequential ==
  /\ \A r1, r2 \in catalogue : SameKey(r1, r2) => r1 = r2
  /\ \A w \in Workers : ReturnedResults(w) =>
       \A i, j \in 1..Len(rows[w]) :
         (/\ i < j
          /\ ~NoNameOrBrand(rows[w][i])
          /\ SameKey(rows[w][i], rows[w][j])
          /\ \A rec \in cat0[w] : ~SameKey(rec, rows[w][i])
          /\ \A k \in 1..(i - 1) : ~SameKey(rows[w][k], rows[w][i]))
         => /\ results[w][i].ok /\ ~results[w][i].existed
            /\ results[w][j] = RowDone(TRUE, results[w][i].id)
            /\ Cardinality({rec \in catalogue \ cat0[w] : SameKey(rec, rows[w][i])}) = 1

\* C26 witness: a returned batch of one new row written in two ways
\* (Cola / Acme / 500ML, then " cola " / ACME / " 500ml" with an empty
\* feature), the second answered with the id minted for the first, in a
\* call made after another record had been stored
C26_Witness ==
  \E w \in Workers :
    /\ ReturnedResults(w) /\ Len(rows[w]) = 2
    /\ rows[w][1] # rows[w][2] /\ SameKey(rows[w][1], rows[w][2])
    /\ ~results[w][1].existed /\ results[w][2] = RowDone(TRUE, results[w][1].id)
    /\ cat0[w] # {}

\* --------------------------------------------------------------------- C27
\* a POST /create request is answered in this step
CreateAnswered == creates' = creates + 1 /\ lastCreate'.op = "create"

\* worker w makes an insert attempt with id in this step
Attempts(w, id) ==
  /\ pc[w] = "insert"
  /\ Len(tried'[w]) = Len(tried[w])
  /\ tried'[w][pos[w]] = Append(tried[w][pos[w]], id)

\* C27: no two records of the catalogue share an id, with concurrent batch
\* calls and direct creates interleaved; a create answered 201 stored a
\* record under an id no record had, a create answered duplicate_id left the
\* catalogue as it was, and a batch insert attempt with the id of a record
\* stores nothing.
C27_UniqueIds ==
  [][/\ \A r1, r2 \in catalogue' : r1.id = r2.id => r1 = r2
     /\ CreateAnswered =>
          /\ lastCreate'.status = 201 =>
               /\ lastCreate'.ids[1] \notin Ids(catalogue)
               /\ Ids(catalogue') = Ids(catalogue) \cup {lastCreate'.ids[1]}
          /\ lastCreate'.status # 201 => catalogue' = catalogue
          /\ (lastCreate'.status = 409) <=> (lastCreate'.error = "duplicate_id")
     /\ \A w \in Workers : \A id \in Ids(catalogue) :
          Attempts(w, id) => (pending'[w] = pending[w] /\ catalogue' = catalogue)]_vars

\* C27 witness: a create was answered duplicate_id while the catalogue held a
\* record and a batch call had an uncommitted row
C27_Witness ==
  /\ lastCreate.error = "duplicate_id"
  /\ catalogue # {}
  /\ \E w \in Workers : pending[w] # {}

\* --------------------------------------------------------------------- C28
\* an entry of `updates` with a required field missing or blank
Incomplete(u) ==
  u # Null /\ \E k \in {"userID", "itemID", "priceID", "chainShopID", "createdAt", "category"} :
                Bare(TextOf(u[k])) = << >>

BulkAnswered == bulk.pc = "done" /\ bulk.updates # << >>

\* C28: a 200 answer of the bulk category update has ok + miss + fail equal
\* to the number of entries submitted, fail being the number of entries with
\* a missing or blank required field, which stop nothing: a request in which
\* nothing throws is answered 200.  When an execute or the commit throws, or
\* on any other 500 answer, the table is as it was before the request and
\* the answer is server_error.
C28_BulkTallyAndRollback ==
  BulkAnswered =>
    /\ bulk.resp.status \in {200, 500}
    /\ bulk.resp.status = 200 =>
         /\ bulk.resp.ok + bulk.resp.miss + bulk.resp.fail = Len(bulk.updates)
         /\ bulk.resp.count = Len(bulk.updates)
         /\ bulk.resp.fail = Cardinality({i \in 1..Len(bulk.updates) : Incomplete(bulk.updates[i])})
    /\ bulk.threw = "" => bulk.resp.status = 200
    /\ bulk.threw # "" => bulk.resp.status = 500
    /\ bulk.resp.status = 500 =>
         /\ bulk.resp.error = "server_error"
         /\ bulk.table = bulk.before

\* C28 witness: a request of an entry without category followed by a
\* complete one was answered ok 1, fail 1, and the table has changed
C28_Witness ==
  /\ BulkAnswered /\ bulk.resp.status = 200
  /\ Len(bulk.updates) = 2 /\ Incomplete(bulk.updates[1])
  /\ bulk.resp.ok = 1 /\ bulk.resp.fail = 1
  /\ bulk.table # bulk.before

\* --------------------------------------------------------------------- C29
\* C29: every connection the bulk category update takes from the pool is
\* given back: whenever connections are out, a moment follows when none is.
\* Violated: when conn.rollback() throws, the conn.release() after it is
\* skipped and the connection stays out for good.
C29_ConnectionReleased == (bulk.leased > 0) ~> (bulk.leased = 0)

\* --------------------------------------------------------------------- C30
\* fetches in flight, and the concurrency asked for (6 when none is given)
InFlight == {k \in 1..Len(sites.at) : sites.at[k] > 0}

\* C30: in GET /regions/with-sites at most `concurrency` fetches run at once
\* and no row index is taken twice; a complete answer has handled every row
\* once; a partial answer has one entry per row, in row order, with the site
\* result of every row fetched before the deadline and timeout for the
\* others.  Violated: on the deadline the results gathered so far are
\* dropped and every row is answered timeout.
C30_LimiterAndPartial ==
  sites.pc \in {"running", "done"} /\ sites.resp.status # 500 =>
    /\ sites.limit # NaN => Cardinality(InFlight) <= sites.limit
    /\ \A i \in 1..Len(sites.urls) : sites.taken[i] <= 1
    /\ (sites.pc = "done" /\ ~sites.resp.partial) =>
         \A i \in 1..Len(sites.urls) : sites.taken[i] = 1 /\ sites.resp.rows[i] = sites.out[i]
    /\ (sites.pc = "done" /\ sites.resp.partial) =>
         /\ Len(sites.resp.rows) = Len(sites.urls)
         /\ \A i \in 1..Len(sites.urls) :
              sites.resp.rows[i] = IF sites.out[i] # "" THEN sites.out[i] ELSE "timeout"

====
